---- MODULE Spec2Model ----
(***************************************************************************)
(* A model of the typed bump-pointer arena of src/lib.rs (mod arena).      *)
(*                                                                         *)
(* One arena Arena<'a, T> for one element type T, one caller that holds    *)
(* the references alloc returned, and the system allocator the arena       *)
(* takes its blocks from.  Addresses and sizes are in bytes.               *)
(***************************************************************************)
EXTENDS Integers, Sequences, FiniteSets, TLC

\* const BLOCK_SIZE: usize = 4096;
BLOCK_SIZE == 4096

\* ptr::null_mut(): the address of the null pointer.
NULL == 0

\* Bounds of the model.
MaxAllocs == 2      \* alloc calls of one run
NumPages == 3       \* size of the modelled heap, in units of BLOCK_SIZE
MaxValue == 2       \* distinct values of a non-zero-sized T

\* Layout::new::<T>() of the element types the arena is instantiated with:
\* a zero-sized type, small types, a type of exactly BLOCK_SIZE bytes and a
\* type larger than BLOCK_SIZE.
Types ==
    { [size |-> 0, align |-> 1],
      [size |-> 8, align |-> 8],
      [size |-> 32, align |-> 32],
      [size |-> BLOCK_SIZE, align |-> 8],
      [size |-> BLOCK_SIZE + 8, align |-> 8] }

VARIABLES
    T,                      \* Layout::new::<T>(), fixed for the arena
    blocks,                 \* Internal.blocks: Vec<Block>
    bytes,                  \* Internal.bytes
    alloc_bytes_remaining,  \* Internal.alloc_bytes_remaining
    alloc_ptr,              \* Internal.alloc_ptr
    phase,                  \* "active" | "in_alloc" | "panicked" |
                            \* "torn_down" | "crashed"
    borrow,                 \* the borrow flag of the RefCell (line 84):
                            \* "unused" | "writing"
    heap,                   \* the allocator's live regions: [ptr, layout]
    mem,                    \* the values stored in memory: [addr, val]
    refs,                   \* the caller's references, in call order
    observed,               \* the last two values bytes_allocated() returned
    dropLog,                \* what teardown did, in order
    lifetime_a,             \* the region 'a: "live" | "ended"
    lastDeref               \* the caller's last read through a reference

vars == << T, blocks, bytes, alloc_bytes_remaining, alloc_ptr, phase, borrow,
           heap, mem, refs, observed, dropLog, lifetime_a, lastDeref >>

\* The fields of Internal as one record.
Self ==
    [ blocks |-> blocks, bytes |-> bytes,
      alloc_bytes_remaining |-> alloc_bytes_remaining, alloc_ptr |-> alloc_ptr ]

\* The values a T can take (a zero-sized T has one value, written 0).
TValues == IF T.size = 0 THEN {0} ELSE 1..MaxValue

\* The values passed to the next alloc call.  alloc never looks at data, it
\* only moves it into the slot (line 60), so the values are named in the
\* order of their first use: a call passes a value of an earlier call or
\* the next unused one.
DataValues == { v \in TValues : v <= Len(refs) + 1 }

----------------------------------------------------------------------------
\* Byte ranges.

\* [p, p + n) and [q, q + m) share a byte.
Overlap(p, n, q, m) == n > 0 /\ m > 0 /\ p < q + m /\ q < p + n

----------------------------------------------------------------------------
\* The system allocator (std::alloc::alloc, std::alloc::dealloc).

HeapEnd == (NumPages + 2) * BLOCK_SIZE

\* The addresses alloc(layout) may return: any region of layout.size bytes
\* that is inside the heap and shares no byte with a live region.  A layout
\* of alignment 0 is not a valid Layout (undefined behaviour); the system
\* allocator then serves the request like any small alignment, which
\* guarantees only its minimum alignment of 16.
AllocResults(h, layout) ==
    { b \in { p * BLOCK_SIZE + o : p \in 1..NumPages, o \in {0, 16} } :
        /\ b + layout.size <= HeapEnd
        /\ IF layout.align = 0 THEN b % 16 = 0 ELSE b % layout.align = 0
        /\ \A r \in h : ~Overlap(b, layout.size, r.ptr, r.layout.size) }

----------------------------------------------------------------------------
\* Internal::new

Init ==
    /\ T \in Types
    /\ blocks = << >>
    /\ bytes = 0
    /\ alloc_bytes_remaining = 0
    /\ alloc_ptr = NULL
    /\ phase = "active"
    /\ borrow = "unused"
    /\ heap = {}
    /\ mem = {}
    /\ refs = << >>
    /\ observed = << >>
    /\ dropLog = << >>
    /\ lifetime_a = "live"
    /\ lastDeref = << >>

----------------------------------------------------------------------------
\* Internal::alloc, lines 36-63.

\* Line 38: the current block has no room for one more T.
NeedsBlock(self, layout) == layout.size > self.alloc_bytes_remaining

\* BlockLayout with the test of line 40 lost: every block is a default one.
BlockLayout_AlwaysDefault(layout) == [size |-> BLOCK_SIZE, align |-> 0]

\* BlockLayout with the branches of line 40 exchanged.
BlockLayout_Inverted(layout) ==
    IF layout.size > BLOCK_SIZE
    THEN [size |-> BLOCK_SIZE, align |-> 0]
    ELSE layout

\* Lines 40-43: the layout of the block to request.  A T of at most
\* BLOCK_SIZE bytes gets a block of BLOCK_SIZE bytes, requested with
\* alignment 0; a larger T gets a block of its own layout.
BlockLayout(layout) ==
    IF layout.size <= BLOCK_SIZE
    THEN [size |-> BLOCK_SIZE, align |-> 0]
    ELSE layout

\* Lines 39-43: alloc_bytes_remaining once the block is chosen.
BlockRemaining(layout) ==
    IF layout.size <= BLOCK_SIZE THEN BLOCK_SIZE ELSE layout.size

\* BytesAfterGrow with -= for +=.
BytesAfterGrow_Minus(self, layout) == self.bytes - layout.size

\* BytesAfterGrow with = for +=.
BytesAfterGrow_Assign(self, layout) == layout.size

\* Line 44: self.bytes += layout.size(), layout being the block's layout.
BytesAfterGrow(self, layout) == self.bytes + layout.size

\* Lines 39-44: what alloc does before it calls the allocator.  layout is
\* the layout of T.
GrowRequest(self, layout) ==
    [ blocks |-> self.blocks,
      bytes |-> BytesAfterGrow(self, BlockLayout(layout)),
      alloc_bytes_remaining |-> BlockRemaining(layout),
      alloc_ptr |-> self.alloc_ptr ]

\* Lines 46-51: the block the allocator returned at block_ptr (NULL when it
\* failed) becomes the current block.
GrowRecord(self, layout, block_ptr) ==
    [ blocks |-> Append(self.blocks,
                        [ ptr |-> block_ptr,
                          layout |-> BlockLayout(layout),
                          count_of_elements |-> 0 ]),
      bytes |-> self.bytes,
      alloc_bytes_remaining |-> self.alloc_bytes_remaining,
      alloc_ptr |-> block_ptr ]

\* Lines 39-51: take the block at block_ptr as the current block.
Grow(self, layout, block_ptr) ==
    GrowRecord(GrowRequest(self, layout), layout, block_ptr)

\* Lines 54-57: carve one slot at the cursor.  layout is the variable
\* `layout` of alloc as it stands at line 54: the layout of T when no block
\* was taken, the layout of the block otherwise.
Carve(self, layout) ==
    [ blocks |->
          IF self.blocks = << >>
          THEN self.blocks
          ELSE [ self.blocks EXCEPT
                   ![Len(self.blocks)].count_of_elements = @ + 1 ],
      bytes |-> self.bytes,
      alloc_bytes_remaining |-> self.alloc_bytes_remaining - layout.size,
      alloc_ptr |-> self.alloc_ptr + layout.size ]

\* SlotPtr taking the slot at the base of the first block, not at the cursor.
SlotPtr_FirstBlock(self) ==
    IF self.blocks = << >> THEN self.alloc_ptr ELSE self.blocks[1].ptr

\* Line 55: the address of the slot.
SlotPtr(self) == self.alloc_ptr

\* Line 60, ptr::write(x, data): size bytes at p now hold v; every value
\* that shared a byte with them is gone.  A zero-sized write stores nothing.
Write(m, p, size, v) ==
    IF size = 0
    THEN m
    ELSE { c \in m : ~Overlap(c.addr, size, p, size) }
             \cup { [addr |-> p, val |-> v] }

\* The values a read of one T at p may give: the value stored there, the one
\* value of a zero-sized T, and anything when no value is stored there.
Read(m, p, size) ==
    IF size = 0
    THEN {0}
    ELSE IF \E c \in m : c.addr = p
         THEN { c.val : c \in { d \in m : d.addr = p } }
         ELSE TValues

\* Internal::alloc when no block is needed (lines 54-62).
AllocFast(data) ==
    /\ ~NeedsBlock(Self, T)
    /\ LET after == Carve(Self, T)
           ptr == SlotPtr(Self)
       IN /\ blocks' = after.blocks
          /\ bytes' = after.bytes
          /\ alloc_bytes_remaining' = after.alloc_bytes_remaining
          /\ alloc_ptr' = after.alloc_ptr
          /\ mem' = Write(mem, ptr, T.size, data)
          /\ refs' = Append(refs, [addr |-> ptr, val |-> data])
    /\ UNCHANGED << phase, heap >>

\* Internal::alloc when a block is needed and the allocator returns one
\* (lines 38-62).
AllocGrow(data) ==
    /\ NeedsBlock(Self, T)
    /\ \E block_ptr \in AllocResults(heap, BlockLayout(T)) :
         LET grown == Grow(Self, T, block_ptr)
             after == Carve(grown, BlockLayout(T))
             ptr == SlotPtr(grown)
         IN /\ blocks' = after.blocks
            /\ bytes' = after.bytes
            /\ alloc_bytes_remaining' = after.alloc_bytes_remaining
            /\ alloc_ptr' = after.alloc_ptr
            /\ heap' = heap \cup { [ptr |-> block_ptr,
                                    layout |-> BlockLayout(T)] }
            /\ mem' = Write(mem, ptr, T.size, data)
            /\ refs' = Append(refs, [addr |-> ptr, val |-> data])
    /\ UNCHANGED phase

\* Internal::alloc when a block is needed and the allocator returns null.
\* The result is not checked: the null block is recorded (lines 44-57) and
\* line 60 writes through the null pointer, which ends the process.
AllocOom ==
    /\ NeedsBlock(Self, T)
    /\ LET grown == Grow(Self, T, NULL)
           after == Carve(grown, BlockLayout(T))
       IN /\ blocks' = after.blocks
          /\ bytes' = after.bytes
          /\ alloc_bytes_remaining' = after.alloc_bytes_remaining
          /\ alloc_ptr' = after.alloc_ptr
    /\ phase' = "crashed"
    /\ UNCHANGED << heap, mem, refs >>

\* Internal::alloc when line 41 builds the layout of alignment 0.  That is
\* undefined behaviour; a build that checks the preconditions of unsafe
\* functions aborts there, after line 39 has run.
AllocAbort ==
    /\ NeedsBlock(Self, T)
    /\ BlockLayout(T).align = 0
    /\ alloc_bytes_remaining' = T.size
    /\ phase' = "crashed"
    /\ UNCHANGED << blocks, bytes, alloc_ptr, heap, mem, refs >>

\* BorrowMutOk without the guard: the cell hands out a second writer.
BorrowMutOk_Unguarded(b) == TRUE

\* Line 95, RefCell::borrow_mut: it succeeds on a cell nobody has borrowed
\* and panics otherwise.
BorrowMutOk(b) == b = "unused"

\* Arena::alloc, lines 94-96: the cell is borrowed, Internal::alloc runs and
\* the borrow ends with the call.
Alloc ==
    /\ phase = "active"
    /\ Len(refs) < MaxAllocs
    /\ BorrowMutOk(borrow)
    /\ \/ \E data \in DataValues : AllocFast(data)
       \/ \E data \in DataValues : AllocGrow(data)
       \/ AllocOom
       \/ AllocAbort
    /\ UNCHANGED << T, borrow, observed, dropLog, lifetime_a, lastDeref >>

\* Arena::alloc seen at the one point where other code runs during it, the
\* call of the allocator at line 45 (the global allocator is replaceable):
\* the cell is borrowed and lines 37-44 have run.
AllocEnterAllocator ==
    /\ phase = "active"
    /\ Len(refs) < MaxAllocs
    /\ BorrowMutOk(borrow)
    /\ NeedsBlock(Self, T)
    /\ borrow' = "writing"
    /\ phase' = "in_alloc"
    /\ LET req == GrowRequest(Self, T)
       IN /\ blocks' = req.blocks
          /\ bytes' = req.bytes
          /\ alloc_bytes_remaining' = req.alloc_bytes_remaining
          /\ alloc_ptr' = req.alloc_ptr
    /\ UNCHANGED << T, heap, mem, refs, observed, dropLog, lifetime_a,
                    lastDeref >>

\* The allocator returns a block to the call in progress, which runs lines
\* 46-62 and ends its borrow.
AllocLeaveAllocator ==
    /\ phase = "in_alloc"
    /\ \E block_ptr \in AllocResults(heap, BlockLayout(T)), data \in DataValues :
         LET grown == GrowRecord(Self, T, block_ptr)
             after == Carve(grown, BlockLayout(T))
             ptr == SlotPtr(grown)
         IN /\ blocks' = after.blocks
            /\ bytes' = after.bytes
            /\ alloc_bytes_remaining' = after.alloc_bytes_remaining
            /\ alloc_ptr' = after.alloc_ptr
            /\ heap' = heap \cup { [ptr |-> block_ptr,
                                    layout |-> BlockLayout(T)] }
            /\ mem' = Write(mem, ptr, T.size, data)
            /\ refs' = Append(refs, [addr |-> ptr, val |-> data])
    /\ borrow' = "unused"
    /\ phase' = "active"
    /\ UNCHANGED << T, observed, dropLog, lifetime_a, lastDeref >>

\* arena.alloc is called while an alloc of the same arena is in progress.
\* borrow_mut (line 95) panics on the borrowed cell; were it to succeed, the
\* second call would run Internal::alloc to its end.
AllocReentered ==
    /\ phase = "in_alloc"
    /\ Len(refs) < MaxAllocs
    /\ IF BorrowMutOk(borrow)
       THEN /\ \E data \in DataValues : AllocFast(data) \/ AllocGrow(data)
            /\ borrow' = "unused"
       ELSE /\ phase' = "panicked"
            /\ UNCHANGED << blocks, bytes, alloc_bytes_remaining, alloc_ptr,
                            borrow, heap, mem, refs >>
    /\ UNCHANGED << T, observed, dropLog, lifetime_a, lastDeref >>

\* Line 99: what bytes_allocated returns.
BytesAllocatedResult(self) == self.bytes

\* Arena::bytes_allocated, lines 98-100.  The caller keeps the results of its
\* last two calls.
BytesAllocated ==
    /\ phase = "active"
    /\ observed' = IF observed = << >>
                   THEN << BytesAllocatedResult(Self) >>
                   ELSE << observed[Len(observed)], BytesAllocatedResult(Self) >>
    /\ UNCHANGED << T, blocks, bytes, alloc_bytes_remaining, alloc_ptr, phase,
                    borrow, heap, mem, refs, dropLog, lifetime_a, lastDeref >>

----------------------------------------------------------------------------
\* Drop for Internal, lines 66-81.

\* Lines 71-76: drop_in_place on the slots 0..count-1 of block number b, in
\* that order; the slots from number i on.
RECURSIVE DropSlots(_, _, _, _)
DropSlots(block, b, layout, i) ==
    IF i >= block.count_of_elements
    THEN << >>
    ELSE << [ kind |-> "drop", block |-> b,
              addr |-> block.ptr + layout.size * i, layout |-> layout ] >>
         \o DropSlots(block, b, layout, i + 1)

\* Dealloc releasing with the layout of T (line 68), not the block's own.
Dealloc_ElementLayout(block, b) ==
    [ kind |-> "dealloc", block |-> b, addr |-> block.ptr, layout |-> T ]

\* Line 77: dealloc(block.ptr, block.layout).
Dealloc(block, b) ==
    [ kind |-> "dealloc", block |-> b, addr |-> block.ptr,
      layout |-> block.layout ]

\* DropBlocks releasing each block before it cleans up the block's slots.
RECURSIVE DropBlocks_DeallocFirst(_, _, _)
DropBlocks_DeallocFirst(bs, layout, b) ==
    IF b > Len(bs)
    THEN << >>
    ELSE << Dealloc(bs[b], b) >>
         \o DropSlots(bs[b], b, layout, 0)
         \o DropBlocks_DeallocFirst(bs, layout, b + 1)

\* Lines 70-78: the blocks from number b on, in the order of the Vec.
RECURSIVE DropBlocks(_, _, _)
DropBlocks(bs, layout, b) ==
    IF b > Len(bs)
    THEN << >>
    ELSE DropSlots(bs[b], b, layout, 0)
         \o << Dealloc(bs[b], b) >>
         \o DropBlocks(bs, layout, b + 1)

\* The regions the allocator still holds after the dealloc calls of log.
HeapAfter(h, log) ==
    { r \in h : ~\E k \in 1..Len(log) :
                    log[k].kind = "dealloc" /\ log[k].addr = r.ptr }

\* The arena goes out of scope: Drop for Internal runs, once.
Teardown ==
    /\ phase = "active"
    /\ phase' = "torn_down"
    /\ dropLog' = DropBlocks(blocks, T, 1)
    /\ heap' = HeapAfter(heap, dropLog')
    /\ mem' = { c \in mem : \E r \in heap' :
                    Overlap(c.addr, T.size, r.ptr, r.layout.size) }
    /\ UNCHANGED << T, blocks, bytes, alloc_bytes_remaining, alloc_ptr, borrow,
                    refs, observed, lifetime_a, lastDeref >>

----------------------------------------------------------------------------
\* The caller.  alloc returns &'a mut T, where 'a is the lifetime parameter
\* of Arena<'a, T> (lines 83, 94): a region that holds while the arena
\* exists, and, Internal having a Drop impl, still holds when it is dropped.
\* The reference borrows nothing from &self.

\* A read through the i-th reference alloc returned.
Deref(i) ==
    /\ lifetime_a = "live"
    /\ phase \in {"active", "torn_down"}
    /\ i \in 1..Len(refs)
    /\ \E v \in Read(mem, refs[i].addr, T.size) :
         lastDeref' = << [ref |-> i, val |-> v, phase |-> phase] >>
    /\ UNCHANGED << T, blocks, bytes, alloc_bytes_remaining, alloc_ptr, phase,
                    borrow, heap, mem, refs, observed, dropLog, lifetime_a >>

\* The region 'a ends, after the arena is gone.
EndOfLifetime ==
    /\ lifetime_a = "live"
    /\ phase = "torn_down"
    /\ lifetime_a' = "ended"
    /\ UNCHANGED << T, blocks, bytes, alloc_bytes_remaining, alloc_ptr, phase,
                    borrow, heap, mem, refs, observed, dropLog, lastDeref >>

----------------------------------------------------------------------------

Next ==
    \/ Alloc
    \/ AllocEnterAllocator
    \/ AllocLeaveAllocator
    \/ AllocReentered
    \/ BytesAllocated
    \/ Teardown
    \/ \E i \in 1..MaxAllocs : Deref(i)
    \/ EndOfLifetime

Spec == Init /\ [][Next]_vars

----------------------------------------------------------------------------
\* Properties.

\* The successful alloc calls so far: one reference each.
NumAllocs == Len(refs)

\* The drop_in_place calls of a teardown log.
Drops(log) == { k \in 1..Len(log) : log[k].kind = "drop" }

\* The space left in the current block: its capacity minus the bytes of the
\* elements constructed in it (0 when there is no block).
Room ==
    IF blocks = << >>
    THEN 0
    ELSE blocks[Len(blocks)].layout.size
            - T.size * blocks[Len(blocks)].count_of_elements

\* The sum of the capacities of a sequence of blocks.
RECURSIVE SumCapacity(_)
SumCapacity(bs) ==
    IF bs = << >> THEN 0
    ELSE bs[1].layout.size + SumCapacity(Tail(bs))

\* A step that is one successful alloc call.
AllocReturned == phase = "active" /\ Len(refs') = Len(refs) + 1

\* C1: allocating N elements and tearing the arena down invokes element
\* cleanup exactly N times, whatever the size of T, zero included.
C1_CleanupParity ==
    phase = "torn_down" => Cardinality(Drops(dropLog)) = NumAllocs

\* C2: two distinct successful alloc calls on a live arena return distinct
\* addresses, and the byte ranges of the two slots do not overlap.
C2_NoAliasing ==
    phase = "active" =>
        \A i, j \in 1..Len(refs) :
            i # j => /\ refs[i].addr # refs[j].addr
                     /\ ~Overlap(refs[i].addr, T.size, refs[j].addr, T.size)

\* C3: while the arena is active every slot handed out still lies in a block
\* the arena holds (when T has a size) and still holds the value written
\* into it, whatever alloc calls came later.
C3_SlotsStable ==
    phase = "active" =>
        \A i \in 1..Len(refs) :
            /\ Read(mem, refs[i].addr, T.size) = { refs[i].val }
            /\ T.size > 0 =>
                 \E b \in 1..Len(blocks) :
                    /\ [ptr |-> blocks[b].ptr, layout |-> blocks[b].layout]
                           \in heap
                    /\ blocks[b].ptr <= refs[i].addr
                    /\ refs[i].addr + T.size
                           <= blocks[b].ptr + blocks[b].layout.size

\* Two allocs of different values have been made, each slot readable.
C3_Witness ==
    /\ phase = "active"
    /\ T.size > 0
    /\ Len(refs) = 2
    /\ Len(blocks) = 2
    /\ refs[1].val # refs[2].val

\* C4: no read through a reference alloc returned happens after the arena
\* has been torn down, that is, after the block of its slot was released.
C4_NoUseAfterTeardown ==
    lastDeref # << >> =>
        ~ /\ lastDeref[1].phase = "torn_down"
          /\ \E k \in 1..Len(dropLog) :
               /\ dropLog[k].kind = "dealloc"
               /\ Overlap(refs[lastDeref[1].ref].addr, T.size,
                          dropLog[k].addr, dropLog[k].layout.size)

\* C5: a successful alloc acquires a block exactly when the space left in
\* the current block is smaller than one element.
C5_GrowOnlyWhenFull ==
    [][ AllocReturned =>
          (Len(blocks') > Len(blocks) <=> Room < T.size) ]_vars

\* C6: a successful alloc of an element larger than BLOCK_SIZE acquires
\* exactly one block, of the element's size, which holds that element.
C6_OversizedOneBlock ==
    [][ (AllocReturned /\ T.size > BLOCK_SIZE) =>
          /\ blocks' = Append(blocks,
                 [ ptr |-> refs'[Len(refs')].addr, layout |-> T,
                   count_of_elements |-> 1 ])
          /\ Cardinality(heap') = Cardinality(heap) + 1
          /\ [ptr |-> refs'[Len(refs')].addr, layout |-> T] \in heap' ]_vars

\* Two oversized elements have been allocated.
C6_Witness ==
    /\ phase = "active"
    /\ T.size > BLOCK_SIZE
    /\ Len(refs) = 2
    /\ Len(blocks) = 2

\* C7: after at least one successful alloc, bytes_allocated() is positive.
C7_BytesPositive ==
    (phase = "active" /\ NumAllocs >= 1) => BytesAllocatedResult(Self) > 0

\* C8: of two calls of bytes_allocated(), the later never returns less.
C8_BytesMonotonic ==
    Len(observed) = 2 => observed[1] <= observed[2]

\* Two calls of bytes_allocated() with a block acquired in between.
C8_Witness ==
    Len(observed) = 2 /\ observed[1] > 0 /\ observed[1] < observed[2]

\* C9: on an active arena bytes_allocated() is the sum of the capacities of
\* the blocks acquired so far, and it changes only in an alloc call that
\* acquires a block, by that block's capacity.
C9_BytesIsSumOfCapacities ==
    /\ [](phase = "active" =>
            /\ BytesAllocatedResult(Self) = SumCapacity(blocks)
            /\ { [ptr |-> blocks[b].ptr, layout |-> blocks[b].layout] :
                    b \in 1..Len(blocks) } = heap
            /\ Cardinality(heap) = Len(blocks))
    /\ [][ (phase' = "active" /\ bytes' # bytes) =>
             /\ AllocReturned
             /\ Len(blocks') = Len(blocks) + 1
             /\ bytes' = bytes + blocks'[Len(blocks')].layout.size ]_vars

\* Two blocks have been acquired.
C9_Witness ==
    phase = "active" /\ Len(blocks) = 2 /\ bytes = SumCapacity(blocks)
        /\ bytes > 0

\* C10: teardown visits the blocks in the order of their creation and the
\* slots in the order of their construction; a block is released after its
\* slots are cleaned up, and no slot is cleaned up in a released block.
C10_TeardownOrder ==
    phase = "torn_down" =>
        /\ \A k, l \in 1..Len(dropLog) :
             k < l =>
               /\ dropLog[k].block <= dropLog[l].block
               /\ (dropLog[k].kind = "drop" /\ dropLog[l].kind = "drop") =>
                    \E i, j \in 1..Len(refs) :
                       /\ i < j
                       /\ refs[i].addr = dropLog[k].addr
                       /\ refs[j].addr = dropLog[l].addr
               /\ (dropLog[k].kind = "dealloc" /\ dropLog[l].kind = "drop") =>
                    ~Overlap(dropLog[l].addr, T.size,
                             dropLog[k].addr, dropLog[k].layout.size)
        /\ \A b \in 1..Len(blocks) :
             \E k \in 1..Len(dropLog) :
                /\ dropLog[k] = Dealloc(blocks[b], b)
                /\ \A i \in 0..(blocks[b].count_of_elements - 1) :
                     \E l \in 1..(k - 1) :
                        /\ dropLog[l].kind = "drop"
                        /\ dropLog[l].addr = blocks[b].ptr + T.size * i

\* A teardown of two blocks with one slot each.
C10_Witness ==
    /\ phase = "torn_down"
    /\ Len(blocks) = 2
    /\ Cardinality(Drops(dropLog)) = 2
    /\ Len(dropLog) = 4

\* The dealloc calls of a teardown log.
Deallocs(log) == { k \in 1..Len(log) : log[k].kind = "dealloc" }

\* C11: no block is released before teardown, and teardown releases every
\* block acquired exactly once, with the layout it was acquired with, and
\* releases nothing else.
C11_BlocksReleasedOnce ==
    /\ [][ phase' # "torn_down" => heap \subseteq heap' ]_vars
    /\ [][ (phase = "active" /\ phase' = "torn_down") =>
             /\ heap' = {}
             /\ \A r \in heap :
                  Cardinality({ k \in Deallocs(dropLog') :
                                  dropLog'[k].addr = r.ptr }) = 1
             /\ \A k \in Deallocs(dropLog') :
                  [ptr |-> dropLog'[k].addr, layout |-> dropLog'[k].layout]
                      \in heap ]_vars

\* A teardown that released two blocks.
C11_Witness ==
    /\ phase = "torn_down"
    /\ Cardinality(Deallocs(dropLog)) = 2
    /\ heap = {}

\* C12: a block request the allocator fails leaves no block recorded for it
\* (and so no cursor into it and no count on it).
C12_FailedRequestNotRecorded ==
    \A b \in 1..Len(blocks) : blocks[b].ptr # NULL

\* C13: an alloc begun while another is in progress panics at the guard and
\* leaves the block list, the cursor and the two counters as they are; while
\* a call is in progress, the bookkeeping changes only when that call goes
\* on to its end.
C13_ReentryPanics ==
    [][ phase = "in_alloc" =>
          \/ /\ phase' = "panicked"
             /\ UNCHANGED << blocks, alloc_ptr, alloc_bytes_remaining, bytes >>
          \/ /\ phase' = "active"
             /\ borrow' = "unused"
             /\ Len(refs') = Len(refs) + 1
             /\ Len(blocks') = Len(blocks) + 1
             /\ bytes' = bytes ]_vars

\* A second alloc was tried while the first had counted its block (line 44)
\* and not yet recorded it (line 46).
C13_Witness ==
    /\ phase = "panicked"
    /\ borrow = "writing"
    /\ bytes = SumCapacity(blocks) + BlockLayout(T).size

\* C14: after an alloc the remaining-bytes counter is the space left in the
\* current block: its capacity minus the size of the elements placed in it.
C14_RemainingIsRoom ==
    (phase = "active" /\ blocks # << >>) => alloc_bytes_remaining = Room

\* The larger of two numbers.
Max(a, b) == IF a >= b THEN a ELSE b

\* C15: every block recorded, and every region acquired, has the capacity
\* max(BLOCK_SIZE, size of T).
C15_BlockCapacity ==
    /\ \A b \in 1..Len(blocks) :
         blocks[b].layout.size = Max(BLOCK_SIZE, T.size)
    /\ \A r \in heap : r.layout.size = Max(BLOCK_SIZE, T.size)

\* Two blocks acquired for a T smaller than BLOCK_SIZE.
C15_Witness ==
    /\ phase = "active"
    /\ T.size > 0
    /\ T.size < BLOCK_SIZE
    /\ Cardinality(heap) = 2
    /\ \A r \in heap : r.layout.size = BLOCK_SIZE

\* The sum of the element counts of a sequence of blocks.
RECURSIVE SumCounts(_)
SumCounts(bs) ==
    IF bs = << >> THEN 0
    ELSE bs[1].count_of_elements + SumCounts(Tail(bs))

\* The successful alloc calls whose slot lies in block b.
CarvedFrom(b) ==
    { i \in 1..Len(refs) :
        /\ blocks[b].ptr <= refs[i].addr
        /\ refs[i].addr < blocks[b].ptr + blocks[b].layout.size }

\* C16: on an active arena each block's element count is the number of
\* successful alloc calls that carved a slot from it, and the counts add up
\* to the number of successful alloc calls.
C16_CountsMatchAllocs ==
    phase = "active" =>
        /\ \A b \in 1..Len(blocks) :
             blocks[b].count_of_elements = Cardinality(CarvedFrom(b))
        /\ SumCounts(blocks) = NumAllocs

\* C17: the elements counted in a block fit in its capacity, and every slot
\* handed out lies inside a block of the arena.
C17_SlotsInsideBlocks ==
    phase = "active" =>
        /\ \A b \in 1..Len(blocks) :
             T.size * blocks[b].count_of_elements <= blocks[b].layout.size
        /\ \A i \in 1..Len(refs) :
             \E b \in 1..Len(blocks) :
                /\ blocks[b].ptr <= refs[i].addr
                /\ refs[i].addr + T.size
                       <= blocks[b].ptr + blocks[b].layout.size

\* C18: the addresses teardown cleans up are the addresses alloc returned.
C18_CleansWhatWasReturned ==
    phase = "torn_down" =>
        { dropLog[k].addr : k \in Drops(dropLog) }
            = { refs[i].addr : i \in 1..Len(refs) }

\* A non-zero power of two.
IsPowerOfTwo(n) == \E k \in 0..12 : n = 2 ^ k

\* C19: every block is requested with a valid alignment that is at least the
\* alignment of T, and every slot address is aligned for T.
C19_ValidAlignment ==
    /\ \A r \in heap :
         /\ IsPowerOfTwo(r.layout.align)
         /\ r.layout.align >= T.align
    /\ \A i \in 1..Len(refs) : refs[i].addr % T.align = 0

====
